---- MODULE Spec2Model ----
(***************************************************************************)
(* A model of the S3 parquet compactor (parquet_compactor.py).             *)
(*                                                                         *)
(* Strings are sequences of one-character strings, so that Python's        *)
(* substring test, str.split and re.search are modelled by what they do.   *)
(* The object store is a set of objects; an object carries its rows, each  *)
(* row being <<id, bytes>>, and its Size is the sum of its rows' bytes.    *)
(***************************************************************************)
EXTENDS Integers, Sequences, FiniteSets, TLC

VARIABLES
    store,                   \* the bucket: a set of objects
    store0,                  \* history: the bucket when the run started
    pc,                      \* where compact() stands
    account_level_prefixes,  \* prefixes compact() still has to handle
    results,                 \* converted leaf listings still to handle
    path,                    \* the partition being merged
    file_list,               \* the files handed to the merge
    dfs,                     \* chunks read_parquet still has to yield
    success,                 \* merge_files_in_dataframe's flag
    log,                     \* history: what this run did, per partition
    faults,                  \* history: failures so far
    plan,                    \* planner: where determine_file_splits stands
    file_tuples,             \* planner: its argument
    file_pos,                \* planner: position of the outer loop
    range_i,                 \* planner: position of the inner loop
    file_inserted,           \* planner: the flag of the inner loop
    split_dict,              \* planner: bin index -> file keys
    size_dict,               \* planner: bin index -> running size
    split_count,             \* planner: number of bins
    batches                  \* planner: the list returned

runVars == <<store, store0, pc, account_level_prefixes, results, path,
             file_list, dfs, success, log, faults>>
planVars == <<plan, file_tuples, file_pos, range_i, file_inserted, split_dict,
              size_dict, split_count, batches>>
vars == <<store, store0, pc, account_level_prefixes, results, path, file_list,
          dfs, success, log, faults,
          plan, file_tuples, file_pos, range_i, file_inserted, split_dict,
          size_dict, split_count, batches>>

-----------------------------------------------------------------------------
(* Bounds of the model. *)

\* objects in the last partition of Dirs before the first run
MaxInitFiles == 3
\* merge failures and transport failures injected in one behaviour
MaxFaults == 1
\* candidates given to the planner, and the largest candidate size
MaxPlanFiles == 3
MaxPlanSize == 5
\* distinct last_modified values in a listing given to filter_compacted
MaxModified == 3

(* Program constants, scaled: FILE_SIZE_BYTES is 0.3 GiB in the source,  *)
(* CHUNKED_ROWS a million rows, and uuid4().hex has 32 hexadecimal digits, *)
(* which is also the count in the regex of filter_compacted.               *)
FILE_SIZE_BYTES == 4
CHUNKED_ROWS == 2
UuidHexLen == 4

(* The object store answers a listing in pages of at most 1000 entries, the *)
(* paginators being created without a page size; scaled as well.           *)
PageSize == 8

-----------------------------------------------------------------------------
(* Strings. *)

AsciiOrder ==
    <<"+", "-", ".", "/", "0", "1", "2", "3", "4", "5", "6", "7", "8", "9", ":",
      "=", "A", "B", "C", "D", "E", "F", "G", "H", "I", "J", "K", "L", "M",
      "N", "O", "P", "Q", "R", "S", "T", "U", "V", "W", "X", "Y", "Z", "_",
      "a", "b", "c", "d", "e", "f", "g", "h", "i", "j", "k", "l", "m", "n",
      "o", "p", "q", "r", "s", "t", "u", "v", "w", "x", "y", "z">>

Ord(c) == CHOOSE i \in 1..Len(AsciiOrder) : AsciiOrder[i] = c

Digits == {"0", "1", "2", "3", "4", "5", "6", "7", "8", "9"}
HexDigits == Digits \cup {"a", "b", "c", "d", "e", "f"}
HexDigitSeq == <<"0", "1", "2", "3", "4", "5", "6", "7", "8", "9",
                 "a", "b", "c", "d", "e", "f">>

\* the value of Op at v, with v evaluated once
With(v, Op(_)) == CHOOSE r \in {Op(x) : x \in {v}} : TRUE

Min(S) == CHOOSE i \in S : \A j \in S : i <= j

Take(s, n) == SubSeq(s, 1, n)
Drop(s, n) == SubSeq(s, n + 1, Len(s))

\* t occurs in s at position i
OccursAt(s, i, t) ==
    /\ i >= 1
    /\ i + Len(t) - 1 <= Len(s)
    /\ \A k \in 1..Len(t) : s[i + k - 1] = t[k]

\* t occurs in s at position i, for i in 1..(Len(s) - Len(t) + 1)
Matches(s, i, t) == \A k \in 1..Len(t) : s[i + k - 1] = t[k]

\* Python: t in s
Contains(s, t) == \E i \in 1..(Len(s) - Len(t) + 1) : Matches(s, i, t)

\* Python: s.find(t) + 1 (0 when t does not occur)
Find(s, t) ==
    IF Contains(s, t)
    THEN CHOOSE i \in 1..(Len(s) - Len(t) + 1) :
             /\ Matches(s, i, t)
             /\ \A j \in 1..(i - 1) : ~Matches(s, j, t)
    ELSE 0

StartsWith(s, t) == OccursAt(s, 1, t)

\* Python: s.split(t)[0]
BeforeFirst(s, t) ==
    With(Find(s, t), LAMBDA i : IF i = 0 THEN s ELSE Take(s, i - 1))

\* the order of S3 listings: by key, character by character
LexLess(a, b) ==
    \E i \in 1..Len(b) :
        /\ i > Len(a) \/ a[i] # b[i]
        /\ \A k \in 1..(i - 1) : k <= Len(a) /\ a[k] = b[k]
        /\ i > Len(a) \/ Ord(a[i]) < Ord(b[i])

\* the strings of S in that order
SortStrings(S) ==
    [i \in 1..Cardinality(S) |->
        CHOOSE x \in S : Cardinality({y \in S : LexLess(y, x)}) = i - 1]

RECURSIVE SumSeq(_)
SumSeq(s) == IF s = <<>> THEN 0 ELSE Head(s) + SumSeq(Tail(s))

SeqRange(s) == {s[i] : i \in 1..Len(s)}

Str_source == <<"s", "o", "u", "r", "c", "e", "=">>
Str_year == <<"y", "e", "a", "r", "=">>
Str_month == <<"m", "o", "n", "t", "h", "=">>
Str_data == <<"d", "a", "t", "a">>
Str_parquet == <<"p", "a", "r", "q", "u", "e", "t">>
Str_AWS == <<"A", "W", "S">>
Str_Azure == <<"A", "z", "u", "r", "e">>
Str_OCP == <<"O", "C", "P">>

-----------------------------------------------------------------------------
(* Configuration and environment. *)

\* S3ParquetCompactor.__init__: bucket "b", data_prefix "d/"
bucket == <<"b">>
path_prefix == <<"s", "3", ":", "/", "/">> \o bucket \o <<"/">>
data_prefix == <<"d", "/">>

SKIP_SOURCE_TYPE_CURRENT_MONTH == <<Str_AWS, Str_Azure>>

\* utcnow() is 2024-06
current_year_str == <<"2", "0", "2", "4">>
current_month_str == <<"0", "6">>

-----------------------------------------------------------------------------
(* The object store. *)

Keys(S) == {o.Key : o \in S}

\* the byte size of a parquet file holding the rows
SizeOfRows(rows) == SumSeq([i \in 1..Len(rows) |-> rows[i][2]])

\* LastModified values are only ever compared with one another, so the
\* store keeps each one as its rank among those present.
Normalize(S) ==
    {[o EXCEPT !.LastModified =
          Cardinality({p.LastModified : p \in {q \in S : q.LastModified <= o.LastModified}})]
       : o \in S}

\* the object a write creates: it is the most recent one
NewObject(S, key, rows) ==
    [Key |-> key, Size |-> SizeOfRows(rows), LastModified |-> Cardinality(S) + 1,
     rows |-> rows]

\* wr.s3.to_parquet(df, path): the new object is the most recent one
S3Put(S, key, rows) ==
    With({o \in S : o.Key # key} \cup {NewObject(S, key, rows)}, Normalize)

\* wr.s3.delete_objects(keys)
S3Delete(S, keys) == With({o \in S : o.Key \notin keys}, Normalize)

\* the keys under a prefix, each without the prefix
Under(S, prefix) ==
    {Drop(k, Len(prefix)) : k \in {x \in Keys(S) : StartsWith(x, prefix)}}

\* paginate(Prefix, Delimiter="/"): the entries under the prefix in key
\* order, an entry being a key with no further delimiter or a common prefix
\* (the keys with one, cut after it)
Entries(S, prefix) ==
    With({With(Find(x, <<"/">>), LAMBDA i : IF i = 0 THEN x ELSE Take(x, i)) :
             x \in Under(S, prefix)},
         SortStrings)

IsCommonPrefix(entry) == entry # <<>> /\ entry[Len(entry)] = "/"

\* the pages of a listing: PageSize entries each, and one page of no entry
\* when there is none
RECURSIVE Pages(_)
Pages(entries) ==
    IF Len(entries) <= PageSize THEN <<entries>>
    ELSE <<Take(entries, PageSize)>> \o Pages(Drop(entries, PageSize))

\* Python's None, among values each held as <<value>>
None == <<>>

\* PageIterator.search(expression), of one page: the elements of the list
\* the page has under that name, or None when the page has no such list
SearchPage(list) ==
    IF list = <<>> THEN <<None>> ELSE [i \in 1..Len(list) |-> <<list[i]>>]

RECURSIVE Flatten(_)
Flatten(lists) == IF lists = <<>> THEN <<>> ELSE Head(lists) \o Flatten(Tail(lists))

\* page after page
Search(lists) == Flatten([i \in 1..Len(lists) |-> SearchPage(lists[i])])

\* result.search("CommonPrefixes"), each value being its "Prefix"
CommonPrefixes(S, prefix) ==
    With(Pages(Entries(S, prefix)),
         LAMBDA pages :
             Search([i \in 1..Len(pages) |->
                        With(SelectSeq(pages[i], IsCommonPrefix),
                             LAMBDA found : [j \in 1..Len(found) |-> prefix \o found[j]])]))

\* result.search("Contents")
Contents(S, prefix) ==
    With(Pages(Entries(S, prefix)),
         LAMBDA pages :
             Search([i \in 1..Len(pages) |->
                        With(SelectSeq(pages[i], LAMBDA e : ~IsCommonPrefix(e)),
                             LAMBDA found :
                                 [j \in 1..Len(found) |->
                                     CHOOSE o \in S : o.Key = prefix \o found[j]])]))

-----------------------------------------------------------------------------
(* S3ParquetCompactor: the crawler and the conversions. *)

\* for prefix in result.search("CommonPrefixes"): if prefix: append
get_common_prefixes(S, prefix) ==
    With(SelectSeq(CommonPrefixes(S, prefix), LAMBDA found : found # None),
         LAMBDA found : [i \in 1..Len(found) |-> found[i][1]])

RECURSIVE get_common_prefixes_recursive(_, _)
RECURSIVE CrawlEach(_, _)
get_common_prefixes_recursive(S, prefix) ==
    With(CommonPrefixes(S, prefix),
         LAMBDA common_prefixes :
             IF common_prefixes = <<None>>
             THEN <<[prefix |-> prefix, values |-> Contents(S, prefix)]>>
             ELSE CrawlEach(S, common_prefixes))
CrawlEach(S, common_prefixes) ==
    IF common_prefixes = <<>> THEN <<>>
    ELSE IF Head(common_prefixes) = None THEN CrawlEach(S, Tail(common_prefixes))
    ELSE get_common_prefixes_recursive(S, Head(common_prefixes)[1])
         \o CrawlEach(S, Tail(common_prefixes))

\* convert_results keeping every file, whatever its size
RECURSIVE ConvertValues_NoSizeFilter(_)
ConvertValues_NoSizeFilter(values) ==
    IF values = <<>> THEN <<>>
    ELSE IF Head(values) = None
         THEN ConvertValues_NoSizeFilter(Tail(values))
         ELSE <<<<path_prefix \o Head(values)[1].Key, Head(values)[1].Size,
                  Head(values)[1].LastModified>>>>
              \o ConvertValues_NoSizeFilter(Tail(values))

\* convert_results with "file_size > FILE_SIZE_BYTES" for ">="
RECURSIVE ConvertValues_GreaterOnly(_)
ConvertValues_GreaterOnly(values) ==
    IF values = <<>> THEN <<>>
    ELSE IF Head(values) = None
         THEN ConvertValues_GreaterOnly(Tail(values))
    ELSE IF Head(values)[1].Size > FILE_SIZE_BYTES
         THEN ConvertValues_GreaterOnly(Tail(values))
         ELSE <<<<path_prefix \o Head(values)[1].Key, Head(values)[1].Size,
                  Head(values)[1].LastModified>>>>
              \o ConvertValues_GreaterOnly(Tail(values))

RECURSIVE ConvertValues(_)
ConvertValues(values) ==
    IF values = <<>> THEN <<>>
    ELSE IF Head(values) = None
         THEN ConvertValues(Tail(values))
    ELSE IF Head(values)[1].Size >= FILE_SIZE_BYTES
         THEN ConvertValues(Tail(values))
         ELSE <<<<path_prefix \o Head(values)[1].Key, Head(values)[1].Size,
                  Head(values)[1].LastModified>>>>
              \o ConvertValues(Tail(values))

convert_results(rs) ==
    [i \in 1..Len(rs) |->
        [path |-> path_prefix \o rs[i].prefix,
         file_tuples |-> ConvertValues(rs[i].values)]]

\* s3_path.split("source=")[1].split("/")[0] if "source=" is in s3_path
determine_base_file_name(p) ==
    With(Find(p, Str_source),
         LAMBDA i :
             IF i = 0 THEN Str_data
             ELSE With(Drop(p, i + Len(Str_source) - 1),
                       LAMBDA rest :
                           With(BeforeFirst(rest, Str_source),
                                LAMBDA part : BeforeFirst(part, <<"/">>))))

\* should_skip_compacting with the month formatted without its leading zero
should_skip_compacting_UnpaddedMonth(p) ==
    LET is_current_month_data ==
            /\ Contains(p, Str_year \o current_year_str)
            /\ Contains(p, Str_month \o Drop(current_month_str, 1))
        is_skippable_source_type ==
            \E i \in 1..Len(SKIP_SOURCE_TYPE_CURRENT_MONTH) :
                Contains(p, SKIP_SOURCE_TYPE_CURRENT_MONTH[i])
    IN  is_current_month_data /\ is_skippable_source_type

should_skip_compacting(p) ==
    LET is_current_month_data ==
            /\ Contains(p, Str_year \o current_year_str)
            /\ Contains(p, Str_month \o current_month_str)
        is_skippable_source_type ==
            \E i \in 1..Len(SKIP_SOURCE_TYPE_CURRENT_MONTH) :
                Contains(p, SKIP_SOURCE_TYPE_CURRENT_MONTH[i])
    IN  is_current_month_data /\ is_skippable_source_type

\* {basename} in the pattern of an f-string is a regex itself: a character
\* stands for itself, "." for any character, and either followed by "+" for
\* one or more of it. The positions that follow a match of it in file
\* that starts at one of the positions P:
RECURSIVE MatchBasename(_, _, _)
MatchBasename(pattern, file, P) ==
    IF pattern = <<>> \/ P = {} THEN P
    ELSE LET repeated == Len(pattern) >= 2 /\ pattern[2] = "+"
             Is(p) == p <= Len(file) /\ (pattern[1] = "." \/ file[p] = pattern[1])
         IN  MatchBasename(
                 Drop(pattern, IF repeated THEN 2 ELSE 1), file,
                 IF repeated
                 THEN {q \in 2..(Len(file) + 1) :
                          \E p \in P : p < q /\ \A r \in p..(q - 1) : Is(r)}
                 ELSE {p + 1 : p \in {q \in P : Is(q)}})

\* re.compile(f"/{basename}_[0-9a-f]{{32}}.parquet").search(file), the
\* count being UuidHexLen here
regex1(basename, file) ==
    \E i \in {n \in 1..Len(file) : file[n] = "/"} :
        \E j \in {n + 1 : n \in MatchBasename(basename \o <<"_">>, file, {i + 1})} :
            /\ j + UuidHexLen - 1 <= Len(file)
            /\ \A k \in 0..(UuidHexLen - 1) : file[j + k - 1] \in HexDigits
            /\ OccursAt(file, j + UuidHexLen, Str_parquet)

\* re.compile(f"/{basename}_[0-9]+.parquet").search(file)
regex2(basename, file) ==
    \E i \in {n \in 1..Len(file) : file[n] = "/"} :
        \E j \in {n + 1 : n \in MatchBasename(basename \o <<"_">>, file, {i + 1})} :
            \E n \in 1..Len(file) :
                /\ j + n - 1 <= Len(file)
                /\ \A k \in 0..(n - 1) : file[j + k - 1] \in Digits
                /\ OccursAt(file, j + n, Str_parquet)

\* sorted(compacted, key=lambda x: x[1])[-1][0]: the sort is stable, so of
\* the entries with the greatest last_modified the last one listed wins
LastCompacted(compacted) ==
    LET i == CHOOSE n \in 1..Len(compacted) :
                 /\ \A m \in 1..Len(compacted) : compacted[m][2] <= compacted[n][2]
                 /\ \A m \in (n + 1)..Len(compacted) : compacted[m][2] < compacted[n][2]
    IN  compacted[i][1]

IsCompacted(basename, file) == regex1(basename, file) \/ regex2(basename, file)

\* the files the loop of filter_compacted appends to its list "compacted"
Compacted(basename, tuples) ==
    With([i \in 1..Len(tuples) |-> <<tuples[i][1], IsCompacted(basename, tuples[i][1])>>],
         LAMBDA searched :
             With(SelectSeq(searched, LAMBDA m : m[2]),
                  LAMBDA old : [i \in 1..Len(old) |-> old[i][1]]))

\* filter_compacted dropping the last compacted file and keeping the others
filter_compacted_DropsLast(basename, tuples) ==
    With([i \in 1..Len(tuples) |-> <<tuples[i], IsCompacted(basename, tuples[i][1])>>],
         LAMBDA searched :
             With(SelectSeq(searched, LAMBDA m : m[2]),
                  LAMBDA old :
                      With(SelectSeq(searched, LAMBDA m : ~m[2]),
                           LAMBDA new :
                               With([i \in 1..Len(old) |-> <<old[i][1][1], old[i][1][3]>>],
                                    LAMBDA compacted :
                                        With([i \in 1..Len(new) |-> new[i][1][1]],
                                             LAMBDA result :
                                                 IF compacted # <<>>
                                                 THEN With(LastCompacted(compacted),
                                                           LAMBDA last :
                                                               SelectSeq([i \in 1..Len(compacted) |->
                                                                             compacted[i][1]],
                                                                         LAMBDA f : f # last))
                                                      \o result
                                                 ELSE result)))))

filter_compacted(basename, tuples) ==
    With([i \in 1..Len(tuples) |-> <<tuples[i], IsCompacted(basename, tuples[i][1])>>],
         LAMBDA searched :
             With(SelectSeq(searched, LAMBDA m : m[2]),
                  LAMBDA old :
                      With(SelectSeq(searched, LAMBDA m : ~m[2]),
                           LAMBDA new :
                               With([i \in 1..Len(old) |-> <<old[i][1][1], old[i][1][3]>>],
                                    LAMBDA compacted :
                                        With([i \in 1..Len(new) |-> new[i][1][1]],
                                             LAMBDA result :
                                                 IF compacted # <<>>
                                                 THEN <<LastCompacted(compacted)>> \o result
                                                 ELSE result)))))

-----------------------------------------------------------------------------
(* The columnar I/O. *)

ObjectAt(S, file) == CHOOSE o \in S : path_prefix \o o.Key = file

RECURSIVE ConcatRows(_, _)
ConcatRows(S, files) ==
    IF files = <<>> THEN <<>>
    ELSE ObjectAt(S, Head(files)).rows \o ConcatRows(S, Tail(files))

RECURSIVE Chunked(_, _)
Chunked(rows, n) ==
    IF rows = <<>> THEN <<>>
    ELSE IF Len(rows) <= n THEN <<rows>>
    ELSE <<Take(rows, n)>> \o Chunked(Drop(rows, n), n)

\* wr.s3.read_parquet(path=file_list, chunked=CHUNKED_ROWS)
read_parquet(S, files) ==
    With(ConcatRows(S, files), LAMBDA rows : Chunked(rows, CHUNKED_ROWS))

\* uuid.uuid4().hex: UuidHexLen hexadecimal digits. Which value is drawn changes
\* nothing but the name, so the model draws the first one that is free.
UuidHex(n) == [i \in 1..UuidHexLen |-> IF i = UuidHexLen THEN HexDigitSeq[n] ELSE "0"]

OutputPath(s3_path, file_name, n) ==
    s3_path \o file_name \o <<"_">> \o UuidHex(n) \o <<".">> \o Str_parquet

FreshOutputPath(S, s3_path, file_name) ==
    With({path_prefix \o k : k \in Keys(S)},
         LAMBDA taken :
             OutputPath(s3_path, file_name,
                        CHOOSE n \in 1..Len(HexDigitSeq) :
                            /\ OutputPath(s3_path, file_name, n) \notin taken
                            /\ \A m \in 1..(n - 1) :
                                  OutputPath(s3_path, file_name, m) \in taken))

-----------------------------------------------------------------------------
(* The buckets the runs start from. *)

\* leaf prefixes below data_prefix: <account>/source=<label>/year=/month=/
Dirs ==
    <<data_prefix \o <<"A", "W", "S", "/">> \o Str_source \o Str_OCP \o <<"/">>
          \o Str_year \o current_year_str \o <<"/">> \o Str_month \o current_month_str \o <<"/">>,
      data_prefix \o <<"a", "1", "/">> \o Str_source \o Str_AWS \o <<"/">>
          \o Str_year \o current_year_str \o <<"/">> \o Str_month \o <<"0", "5", "/">>,
      data_prefix \o <<"a", "2", "/">> \o Str_source \o Str_AWS \o <<"/">>
          \o Str_year \o current_year_str \o <<"/">> \o Str_month \o current_month_str \o <<"/">>,
      data_prefix \o <<"a", "1", "/">> \o Str_source \o Str_OCP \o <<"/">>
          \o Str_year \o current_year_str \o <<"/">> \o Str_month \o current_month_str \o <<"/">>>>

\* the file names a partition may hold: two raw files, a legacy compacted
\* file, a compacted file, and a raw file of exactly the target size
FileNames(dir) ==
    LET base == determine_base_file_name(path_prefix \o dir)
    IN  <<<<"r", "1", ".">> \o Str_parquet,
          <<"r", "2", ".">> \o Str_parquet,
          base \o <<"_", "0", ".">> \o Str_parquet,
          base \o <<"_">> \o [i \in 1..UuidHexLen |-> "f"] \o <<".">> \o Str_parquet,
          <<"f", "u", "l", "l", ".">> \o Str_parquet>>

\* the rows of those files, <<row id, bytes>>: in the last partition of
\* Dirs as listed, in the other ones a single row of one byte
FileRows(d, t) ==
    IF d < Len(Dirs) THEN <<<<10 * d + t, 1>>>>
    ELSE <<  <<<<10 * d + 1, 2>>>>,
             <<<<10 * d + 2, 1>>, <<10 * d + 3, 1>>, <<10 * d + 4, 1>>>>,
             <<<<10 * d + 5, 1>>>>,
             <<<<10 * d + 6, 2>>>>,
             <<<<10 * d + 7, FILE_SIZE_BYTES>>>>  >>[t]

InitObject(d, t) ==
    [Key |-> Dirs[d] \o FileNames(Dirs[d])[t], Size |-> SizeOfRows(FileRows(d, t)),
     LastModified |-> t, rows |-> FileRows(d, t)]

RECURSIVE SubsetsUpTo(_, _)
SubsetsUpTo(S, n) ==
    IF n = 0 THEN {{}}
    ELSE SubsetsUpTo(S, n - 1)
         \cup {T \cup {x} : T \in SubsetsUpTo(S, n - 1), x \in S}

\* The last partition of Dirs starts with any of these files, up to
\* MaxInitFiles of them; at most one of the other partitions is there
\* too, with the two raw files.
InitStores ==
    {Normalize(M \cup {InitObject(d, t) : d \in E, t \in 1..2}) :
        M \in SubsetsUpTo({InitObject(Len(Dirs), t) : t \in 1..5}, MaxInitFiles),
        E \in {{}} \cup {{d} : d \in 1..(Len(Dirs) - 1)}}

-----------------------------------------------------------------------------
(* compact(), step by step. *)

NoMerge == /\ path' = <<>>
           /\ file_list' = <<>>
           /\ dfs' = <<>>
           /\ success' = TRUE

RunInit ==
    /\ store \in InitStores
    /\ store0 = store
    /\ pc = "idle"
    /\ account_level_prefixes = <<>>
    /\ results = <<>>
    /\ path = <<>>
    /\ file_list = <<>>
    /\ dfs = <<>>
    /\ success = TRUE
    /\ log = <<>>
    /\ faults = 0

\* determine_file_splits has not been called
PlanIdle ==
    /\ plan = "none"
    /\ file_tuples = <<>>
    /\ file_pos = 1
    /\ range_i = 0
    /\ file_inserted = FALSE
    /\ split_dict = <<>>
    /\ size_dict = <<>>
    /\ split_count = 1
    /\ batches = <<>>

Init == RunInit /\ PlanIdle

\* app.main(): the job is started (again); compact() lists the account level
Compact ==
    /\ pc \in {"idle", "done", "aborted"}
    /\ pc' = "prefix"
    /\ account_level_prefixes' = get_common_prefixes(store, data_prefix)
    /\ results' = <<>>
    /\ log' = <<>>
    /\ NoMerge
    /\ store0' = store
    /\ UNCHANGED <<store, faults>>
    /\ UNCHANGED planVars

\* for prefix in account_level_prefixes: crawl and convert
HandlePrefix ==
    /\ pc = "prefix"
    /\ account_level_prefixes # <<>>
    /\ \E crawled \in {get_common_prefixes_recursive(store, Head(account_level_prefixes))} :
          results' = convert_results(crawled)
    /\ account_level_prefixes' = Tail(account_level_prefixes)
    /\ pc' = "partition"
    /\ UNCHANGED <<store, path, file_list, dfs, success, log, faults>>
    /\ UNCHANGED store0
    /\ UNCHANGED planVars

\* the loop over the prefixes is over: compact() returns
CompactReturns ==
    /\ pc = "prefix"
    /\ account_level_prefixes = <<>>
    /\ pc' = "done"
    /\ UNCHANGED <<store, account_level_prefixes, results, path, file_list, dfs,
                   success, log, faults>>
    /\ UNCHANGED store0
    /\ UNCHANGED planVars

\* the loop over the results of one prefix is over
NextPrefix ==
    /\ pc = "partition"
    /\ results = <<>>
    /\ pc' = "prefix"
    /\ UNCHANGED <<store, account_level_prefixes, results, path, file_list, dfs,
                   success, log, faults>>
    /\ UNCHANGED store0
    /\ UNCHANGED planVars

\* what the run did with one partition: the decision taken (kind), the
\* number of eligible files listed, the files and sizes handed to the
\* merge, the files it wrote and their sizes, the chunk writes that failed, and whether
\* it returned, with which outcome, and whether the sources were deleted
LogEntry(r, kind, files) ==
    [path |-> r.path, kind |-> kind, eligible |-> Len(r.file_tuples),
     file_list |-> files,
     sizes |-> [i \in 1..Len(files) |->
                   (CHOOSE t \in SeqRange(r.file_tuples) : t[1] = files[i])[2]],
     outputs |-> <<>>, output_sizes |-> <<>>, failed |-> 0, returned |-> FALSE, success |-> TRUE,
     deleted |-> FALSE]

\* if self.should_skip_compacting(path): continue
SkipPartition ==
    /\ pc = "partition"
    /\ results # <<>>
    /\ should_skip_compacting(Head(results).path)
    /\ results' = Tail(results)
    /\ log' = Append(log, LogEntry(Head(results), "skip", <<>>))
    /\ UNCHANGED <<store, pc, account_level_prefixes, path, file_list, dfs,
                   success, faults>>
    /\ UNCHANGED store0
    /\ UNCHANGED planVars

\* if len(file_tuples) <= 1: continue
NoFilesToCompact ==
    /\ pc = "partition"
    /\ results # <<>>
    /\ ~should_skip_compacting(Head(results).path)
    /\ Len(Head(results).file_tuples) <= 1
    /\ results' = Tail(results)
    /\ log' = Append(log, LogEntry(Head(results), "none", <<>>))
    /\ UNCHANGED <<store, pc, account_level_prefixes, path, file_list, dfs,
                   success, faults>>
    /\ UNCHANGED store0
    /\ UNCHANGED planVars

\* StartMerge with "if len(file_tuples) < 1: continue" before it
StartMerge_OneFile ==
    /\ pc = "partition"
    /\ results # <<>>
    /\ ~should_skip_compacting(Head(results).path)
    /\ Len(Head(results).file_tuples) > 0
    /\ \E file_name \in {determine_base_file_name(Head(results).path)} :
       \E files \in {filter_compacted(file_name, Head(results).file_tuples)} :
          /\ path' = Head(results).path
          /\ file_list' = files
          /\ dfs' = read_parquet(store, files)
          /\ log' = Append(log, LogEntry(Head(results), "merge", files))
    /\ success' = TRUE
    /\ results' = Tail(results)
    /\ pc' = "merge"
    /\ UNCHANGED <<store, account_level_prefixes, faults>>
    /\ UNCHANGED store0
    /\ UNCHANGED planVars

\* filter_compacted, then merge_files_in_dataframe up to its first chunk
StartMerge ==
    /\ pc = "partition"
    /\ results # <<>>
    /\ ~should_skip_compacting(Head(results).path)
    /\ Len(Head(results).file_tuples) > 1
    /\ \E file_name \in {determine_base_file_name(Head(results).path)} :
       \E files \in {filter_compacted(file_name, Head(results).file_tuples)} :
          /\ path' = Head(results).path
          /\ file_list' = files
          /\ dfs' = read_parquet(store, files)
          /\ log' = Append(log, LogEntry(Head(results), "merge", files))
    /\ success' = TRUE
    /\ results' = Tail(results)
    /\ pc' = "merge"
    /\ UNCHANGED <<store, account_level_prefixes, faults>>
    /\ UNCHANGED store0
    /\ UNCHANGED planVars

\* WriteChunk with "success = True" set after each write that succeeds
WriteChunk_ResetsSuccess ==
    /\ pc = "merge"
    /\ dfs # <<>>
    /\ \E file_name \in {determine_base_file_name(path)} :
       \E file_path \in {FreshOutputPath(store, path, file_name)} :
       \E key \in {Drop(file_path, Len(path_prefix))} :
          /\ store' = S3Put(store, key, Head(dfs))
          /\ log' = [log EXCEPT ![Len(log)].outputs = Append(@, file_path),
                                ![Len(log)].output_sizes =
                                    Append(@, SizeOfRows(Head(dfs)))]
    /\ dfs' = Tail(dfs)
    /\ success' = TRUE
    /\ UNCHANGED <<pc, account_level_prefixes, results, path, file_list, faults>>
    /\ UNCHANGED store0
    /\ UNCHANGED planVars

\* one chunk: wr.s3.to_parquet writes it under a fresh name
WriteChunk ==
    /\ pc = "merge"
    /\ dfs # <<>>
    /\ \E file_name \in {determine_base_file_name(path)} :
       \E file_path \in {FreshOutputPath(store, path, file_name)} :
       \E key \in {Drop(file_path, Len(path_prefix))} :
          /\ store' = S3Put(store, key, Head(dfs))
          /\ log' = [log EXCEPT ![Len(log)].outputs = Append(@, file_path),
                                ![Len(log)].output_sizes =
                                    Append(@, SizeOfRows(Head(dfs)))]
    /\ dfs' = Tail(dfs)
    /\ UNCHANGED <<pc, account_level_prefixes, results, path, file_list, success,
                   faults>>
    /\ UNCHANGED store0
    /\ UNCHANGED planVars

\* WriteChunkFails without "success = False" in the except clause
WriteChunkFails_KeepsSuccess ==
    /\ pc = "merge"
    /\ dfs # <<>>
    /\ faults < MaxFaults
    /\ faults' = faults + 1
    /\ dfs' = Tail(dfs)
    /\ log' = [log EXCEPT ![Len(log)].failed = @ + 1]
    /\ UNCHANGED <<store, pc, account_level_prefixes, results, path, file_list, success>>
    /\ UNCHANGED store0
    /\ UNCHANGED planVars

\* one chunk: wr.s3.to_parquet raises ArrowException or EmptyDataFrame
WriteChunkFails ==
    /\ pc = "merge"
    /\ dfs # <<>>
    /\ faults < MaxFaults
    /\ faults' = faults + 1
    /\ success' = FALSE
    /\ dfs' = Tail(dfs)
    /\ log' = [log EXCEPT ![Len(log)].failed = @ + 1]
    /\ UNCHANGED <<store, pc, account_level_prefixes, results, path, file_list>>
    /\ UNCHANGED store0
    /\ UNCHANGED planVars

\* MergeReturns without "if success:" before the delete
MergeReturns_DeletesAlways ==
    /\ pc = "merge"
    /\ dfs = <<>>
    /\ store' = S3Delete(store, {Drop(f, Len(path_prefix)) : f \in SeqRange(file_list)})
    /\ log' = [log EXCEPT ![Len(log)].returned = TRUE,
                          ![Len(log)].success = success,
                          ![Len(log)].deleted = TRUE]
    /\ pc' = "partition"
    /\ NoMerge
    /\ UNCHANGED <<account_level_prefixes, results, faults>>
    /\ UNCHANGED store0
    /\ UNCHANGED planVars

\* MergeReturns with a failed merge ending the loops of compact()
MergeReturns_FailureEndsRun ==
    /\ pc = "merge"
    /\ dfs = <<>>
    /\ store' = IF success
                THEN S3Delete(store, {Drop(f, Len(path_prefix)) : f \in SeqRange(file_list)})
                ELSE store
    /\ log' = [log EXCEPT ![Len(log)].returned = TRUE,
                          ![Len(log)].success = success,
                          ![Len(log)].deleted = success]
    /\ pc' = IF success THEN "partition" ELSE "done"
    /\ NoMerge
    /\ UNCHANGED <<account_level_prefixes, results, faults>>
    /\ UNCHANGED store0
    /\ UNCHANGED planVars

\* MergeReturns without the call of remove_uncompacted_files
MergeReturns_NeverDeletes ==
    /\ pc = "merge"
    /\ dfs = <<>>
    /\ log' = [log EXCEPT ![Len(log)].returned = TRUE,
                          ![Len(log)].success = success]
    /\ pc' = "partition"
    /\ NoMerge
    /\ UNCHANGED <<store, account_level_prefixes, results, faults>>
    /\ UNCHANGED store0
    /\ UNCHANGED planVars

\* the merge returns success; if success: remove_uncompacted_files(file_list)
MergeReturns ==
    /\ pc = "merge"
    /\ dfs = <<>>
    /\ store' = IF success
                THEN S3Delete(store, {Drop(f, Len(path_prefix)) : f \in SeqRange(file_list)})
                ELSE store
    /\ log' = [log EXCEPT ![Len(log)].returned = TRUE,
                          ![Len(log)].success = success,
                          ![Len(log)].deleted = success]
    /\ pc' = "partition"
    /\ NoMerge
    /\ UNCHANGED <<account_level_prefixes, results, faults>>
    /\ UNCHANGED store0
    /\ UNCHANGED planVars

\* a call to the object store raises (a listing, a read, a write, the
\* delete): nothing catches it, the job ends
TransportFailure ==
    /\ \/ pc = "prefix" /\ account_level_prefixes # <<>>
       \/ pc = "merge" /\ (dfs # <<>> \/ success)
    /\ faults < MaxFaults
    /\ faults' = faults + 1
    /\ pc' = "aborted"
    /\ account_level_prefixes' = <<>>
    /\ results' = <<>>
    /\ NoMerge
    /\ UNCHANGED <<store, log>>
    /\ UNCHANGED store0
    /\ UNCHANGED planVars

Next ==
    \/ Compact
    \/ HandlePrefix
    \/ CompactReturns
    \/ NextPrefix
    \/ SkipPartition
    \/ NoFilesToCompact
    \/ StartMerge
    \/ WriteChunk
    \/ WriteChunkFails
    \/ MergeReturns
    \/ TransportFailure

Spec == Init /\ [][Next]_vars

\* the runs in which no write fails and no call to the object store raises;
\* the job is started again and again, and a started job runs on
NextNoFailure ==
    \/ Compact
    \/ HandlePrefix
    \/ CompactReturns
    \/ NextPrefix
    \/ SkipPartition
    \/ NoFilesToCompact
    \/ StartMerge
    \/ WriteChunk
    \/ MergeReturns

LiveSpec == Init /\ [][NextNoFailure]_vars /\ WF_vars(NextNoFailure)

-----------------------------------------------------------------------------
(* compact() on other trees of prefixes. *)

RawObject(dir, n) ==
    [Key |-> dir \o <<"r", HexDigitSeq[n], ".">> \o Str_parquet, Size |-> 1,
     LastModified |-> n, rows |-> <<<<100 + n, 1>>>>]

\* two files directly under data_prefix, which has no sub-prefix
RootLeafStore == {RawObject(data_prefix, n) : n \in 1..2}

\* a partition listed in two pages
TwoPageStore == {RawObject(Dirs[Len(Dirs)], n) : n \in 1..(PageSize + 1)}

\* a file directly under an account prefix, next to a partition below it
MixedStore ==
    {RawObject(data_prefix \o <<"a", "1", "/">>, 1)}
        \cup {RawObject(Dirs[Len(Dirs)], n) : n \in 1..2}

\* a partition one level further down
DeepStore ==
    {RawObject(Dirs[Len(Dirs)] \o <<"d", "a", "y", "=", "0", "1", "/">>, n) : n \in 1..2}
        \cup {RawObject(Dirs[2], n) : n \in 1..2}

CrawlStores ==
    (InitStores \ {{}})
        \cup {Normalize(S) : S \in {RootLeafStore, TwoPageStore, MixedStore, DeepStore}}

CrawlInit ==
    /\ store \in CrawlStores
    /\ store0 = store
    /\ pc = "idle"
    /\ account_level_prefixes = <<>>
    /\ results = <<>>
    /\ path = <<>>
    /\ file_list = <<>>
    /\ dfs = <<>>
    /\ success = TRUE
    /\ log = <<>>
    /\ faults = 0
    /\ PlanIdle

CrawlSpec == CrawlInit /\ [][Next]_vars

-----------------------------------------------------------------------------
(* filter_compacted() on the listings of one partition. *)

\* partitions: a source label, a source label with a "+" in it, and no
\* source= segment
FilterDirs ==
    <<Dirs[Len(Dirs)],
      data_prefix \o <<"a", "1", "/">> \o Str_source \o <<"a", "+", "b", "/">>
          \o Str_year \o current_year_str \o <<"/">> \o Str_month \o current_month_str \o <<"/">>,
      data_prefix \o <<"a", "1", "/">>
          \o Str_year \o current_year_str \o <<"/">> \o Str_month \o current_month_str \o <<"/">>>>

\* the files a listing of the partition may hold, in key order: a file of
\* the older naming, a copy of it under another extension, two files
\* named as merge_files_in_dataframe names them, and a raw file
FilterNames(s3_path) ==
    LET base == determine_base_file_name(s3_path)
    IN  <<s3_path \o base \o <<"_", "0", ".">> \o Str_parquet,
          s3_path \o base \o <<"_", "0", ".">> \o Str_parquet \o <<".", "b", "a", "k">>,
          OutputPath(s3_path, base, 1),
          OutputPath(s3_path, base, 2),
          s3_path \o <<"r", "1", ".">> \o Str_parquet>>

\* the listings: any of those files, each <<file, size, last_modified>>
\* with last_modified in 1..MaxModified; compact() passes those of two
\* files or more on to filter_compacted
FilterInputs(s3_path) ==
    With(FilterNames(s3_path),
         LAMBDA names :
             {SelectSeq([n \in 1..Len(names) |-> <<names[n], 1, m[n]>>],
                        LAMBDA t : t[3] # 0) :
                 m \in [1..Len(names) -> 0..MaxModified]})

FilterInit ==
    /\ store = {}
    /\ store0 = {}
    /\ pc = "filter"
    /\ account_level_prefixes = <<>>
    /\ path \in {path_prefix \o FilterDirs[d] : d \in 1..Len(FilterDirs)}
    /\ \E tuples \in FilterInputs(path) :
          /\ Len(tuples) > 1
          /\ results = <<[path |-> path, file_tuples |-> tuples]>>
    /\ file_list = <<>>
    /\ dfs = <<>>
    /\ success = TRUE
    /\ log = <<>>
    /\ faults = 0
    /\ PlanIdle

\* file_list = self.filter_compacted(base_file_name, file_tuples); the log
\* keeps what the call took for compacted
Filter ==
    /\ pc = "filter"
    /\ \E base_file_name \in {determine_base_file_name(path)} :
          /\ file_list' = filter_compacted(base_file_name, Head(results).file_tuples)
          /\ log' = <<Compacted(base_file_name, Head(results).file_tuples)>>
    /\ pc' = "filtered"
    /\ UNCHANGED <<store, store0, account_level_prefixes, results, path, dfs, success,
                   faults>>
    /\ UNCHANGED planVars

\* the call again, on the files the first call retained
FilterAgain ==
    /\ pc = "filtered"
    /\ \E base_file_name \in {determine_base_file_name(path)} :
       \E retained \in {SelectSeq(Head(results).file_tuples,
                                 LAMBDA t : t[1] \in SeqRange(file_list))} :
          dfs' = filter_compacted(base_file_name, retained)
    /\ pc' = "refiltered"
    /\ UNCHANGED <<store, store0, account_level_prefixes, results, path, file_list,
                   success, log, faults>>
    /\ UNCHANGED planVars

FilterNext ==
    \/ Filter
    \/ FilterAgain

FilterSpec == FilterInit /\ [][FilterNext]_vars

-----------------------------------------------------------------------------
(* determine_file_splits(), step by step. compact() does not call it. *)

\* a Python dict: its items <<key, value>> in insertion order
DictHas(d, k) == \E n \in 1..Len(d) : d[n][1] = k

\* defaultdict.__getitem__: the value, or the default of the factory
DictGet(d, k, default) ==
    IF DictHas(d, k) THEN d[CHOOSE n \in 1..Len(d) : d[n][1] = k][2] ELSE default

DictSet(d, k, v) ==
    IF DictHas(d, k)
    THEN [n \in 1..Len(d) |-> IF d[n][1] = k THEN <<k, v>> ELSE d[n]]
    ELSE Append(d, <<k, v>>)

\* the candidate lists given to the planner: <<key, size, last_modified>>
\* with distinct keys and sizes from 0 to MaxPlanSize
PlanKey(n) == <<"f", HexDigitSeq[n + 1]>>

PlanInputs ==
    UNION {{[n \in 1..len |-> <<PlanKey(n), sizes[n], n>>] :
               sizes \in [1..len -> 0..MaxPlanSize]} : len \in 0..MaxPlanFiles}

\* the call determine_file_splits(file_tuples)
PlanInit ==
    /\ store = {}
    /\ RunInit
    /\ plan = "file"
    /\ file_tuples \in PlanInputs
    /\ file_pos = 1
    /\ range_i = 0
    /\ file_inserted = FALSE
    /\ split_dict = <<>>
    /\ size_dict = <<>>
    /\ split_count = 1
    /\ batches = <<>>

\* for file_tuple in file_tuples: file_inserted = False
NextFile ==
    /\ plan = "file"
    /\ file_pos <= Len(file_tuples)
    /\ range_i' = 0
    /\ file_inserted' = FALSE
    /\ plan' = "bin"
    /\ UNCHANGED <<file_tuples, file_pos, split_dict, size_dict, split_count, batches>>
    /\ UNCHANGED runVars

\* the test of the inner loop with the file size left out
Fits_IgnoresFileSize(size, file_size) == size <= FILE_SIZE_BYTES

\* if size_dict[i] + file_size <= FILE_SIZE_BYTES
Fits(size, file_size) == size + file_size <= FILE_SIZE_BYTES

\* for i in range(split_count): one bin
TryBin ==
    /\ plan = "bin"
    /\ range_i < split_count
    /\ LET file_key == file_tuples[file_pos][1]
           file_size == file_tuples[file_pos][2]
       IN  IF Fits(DictGet(size_dict, range_i, 0), file_size)
           THEN /\ split_dict' = DictSet(split_dict, range_i,
                                         Append(DictGet(split_dict, range_i, <<>>), file_key))
                /\ size_dict' = DictSet(size_dict, range_i,
                                        DictGet(size_dict, range_i, 0) + file_size)
                /\ file_inserted' = TRUE
           ELSE /\ size_dict' = DictSet(size_dict, range_i, DictGet(size_dict, range_i, 0))
                /\ UNCHANGED <<split_dict, file_inserted>>
    /\ range_i' = range_i + 1
    /\ UNCHANGED <<plan, file_tuples, file_pos, split_count, batches>>
    /\ UNCHANGED runVars

\* the inner loop is over; if not file_inserted: a new bin
EndFile ==
    /\ plan = "bin"
    /\ range_i = split_count
    /\ LET file_key == file_tuples[file_pos][1]
           file_size == file_tuples[file_pos][2]
       IN  IF ~file_inserted
           THEN /\ split_dict' = DictSet(split_dict, split_count,
                                         Append(DictGet(split_dict, split_count, <<>>), file_key))
                /\ size_dict' = DictSet(size_dict, split_count,
                                        DictGet(size_dict, split_count, 0) + file_size)
                /\ split_count' = split_count + 1
           ELSE UNCHANGED <<split_dict, size_dict, split_count>>
    /\ file_pos' = file_pos + 1
    /\ plan' = "file"
    /\ UNCHANGED <<file_tuples, range_i, file_inserted, batches>>
    /\ UNCHANGED runVars

\* PlanReturns with "len(file_list) > 0" in the filter of the return
PlanReturns_KeepsSingletons ==
    /\ plan = "file"
    /\ file_pos > Len(file_tuples)
    /\ batches' = SelectSeq([n \in 1..Len(split_dict) |-> split_dict[n][2]],
                            LAMBDA members : Len(members) > 0)
    /\ plan' = "returned"
    /\ UNCHANGED <<file_tuples, file_pos, range_i, file_inserted, split_dict,
                   size_dict, split_count>>
    /\ UNCHANGED runVars

\* return [file_list for file_list in split_dict.values() if len(file_list) > 1]
PlanReturns ==
    /\ plan = "file"
    /\ file_pos > Len(file_tuples)
    /\ batches' = SelectSeq([n \in 1..Len(split_dict) |-> split_dict[n][2]],
                            LAMBDA members : Len(members) > 1)
    /\ plan' = "returned"
    /\ UNCHANGED <<file_tuples, file_pos, range_i, file_inserted, split_dict,
                   size_dict, split_count>>
    /\ UNCHANGED runVars

PlanNext ==
    \/ NextFile
    \/ TryBin
    \/ EndFile
    \/ PlanReturns

PlanSpec == PlanInit /\ [][PlanNext]_vars

-----------------------------------------------------------------------------
(* What the claims speak of. *)

\* the full paths of the objects in the bucket
StorePaths == {path_prefix \o k : k \in Keys(store)}

Merges == {i \in 1..Len(log) : log[i].kind = "merge"}

\* the path segment <name><value>, first of that name: <<value>>, or <<>>
\* when the path has no such segment
Segment(p, name) ==
    With({i \in 1..Len(p) : p[i] = "/"} \cup {0, Len(p) + 1},
         LAMBDA cuts :
             With({i \in cuts : OccursAt(p, i + 1, name)},
                  LAMBDA starts :
                      IF starts = {} THEN <<>>
                      ELSE With(Min(starts),
                                LAMBDA i : <<SubSeq(p, i + 1 + Len(name),
                                                    Min({j \in cuts : j > i}) - 1)>>)))

\* the partition's source label: the segment after source=, or "data"
DerivedLabel(p) ==
    With(Segment(p, Str_source), LAMBDA label : IF label = <<>> THEN Str_data ELSE label[1])

\* the partition's derived fields say it is to be skipped
DerivedSkip(p) ==
    /\ Segment(p, Str_year) = <<current_year_str>>
    /\ Segment(p, Str_month) = <<current_month_str>>
    /\ \E i \in 1..Len(SKIP_SOURCE_TYPE_CURRENT_MONTH) :
          SKIP_SOURCE_TYPE_CURRENT_MONTH[i] = DerivedLabel(p)

\* the partition an object lies in: its key up to the last delimiter
RECURSIVE LastCut(_, _)
LastCut(k, n) == IF n = 0 \/ k[n] = "/" THEN n ELSE LastCut(k, n - 1)

DirOf(k) == Take(k, LastCut(k, Len(k)))

ObjectsIn(S, p) == {o \in S : path_prefix \o DirOf(o.Key) = p}

\* the objects, without the LastModified ranks that later writes shift
Files(S) == {[Key |-> o.Key, Size |-> o.Size, rows |-> o.rows] : o \in S}

-----------------------------------------------------------------------------
(* C1..C9: compact(). *)

\* C1: the source files of a merge in which a chunk write failed are all
\* still in the bucket, up to the end of the run and after it.
C1_FailedMergeKeepsSources ==
    \A i \in Merges :
        log[i].failed > 0 => SeqRange(log[i].file_list) \subseteq StorePaths

C1_Witness ==
    /\ pc = "done"
    /\ \E i \in Merges :
          /\ log[i].failed > 0
          /\ log[i].returned
          /\ Len(log[i].file_list) >= 2
          /\ SeqRange(log[i].file_list) \subseteq StorePaths

C3_MergeHasTwoSources ==
    \A i \in Merges : Len(log[i].file_list) >= 2

\* C4: with no external writer and no failure, the runs reach one that
\* writes and deletes nothing, and so does every run after it.
C4_ReachesFixedPoint ==
    <>[](\A i \in 1..Len(log) : log[i].outputs = <<>> /\ ~log[i].deleted)

\* C5: a partition whose derived year and month are the current ones and
\* whose source label is in the skip list is skipped, no merge reads,
\* writes or deletes in it, and it holds the files it held when the run
\* started, unchanged.
C5_SkipCorrectness ==
    /\ \A i \in 1..Len(log) :
          DerivedSkip(log[i].path) =>
              /\ log[i].kind = "skip"
              /\ log[i].file_list = <<>>
              /\ log[i].outputs = <<>>
              /\ ~log[i].deleted
    /\ \A d \in {DirOf(k) : k \in Keys(store) \cup Keys(store0)} :
          DerivedSkip(path_prefix \o d) =>
              Files(ObjectsIn(store, path_prefix \o d))
                  = Files(ObjectsIn(store0, path_prefix \o d))

C5_Witness ==
    /\ pc = "done"
    /\ \E i \in 1..Len(log) :
          /\ DerivedSkip(log[i].path)
          /\ log[i].kind = "skip"
          /\ log[i].eligible >= 2
          /\ Cardinality(ObjectsIn(store, log[i].path)) >= 2
    /\ \E j \in Merges : log[j].deleted

\* C6: a partition is skipped if and only if its derived year and month are
\* the current ones and its derived source label is in the skip list.
C6_SkipIffDerived ==
    \A i \in 1..Len(log) : (log[i].kind = "skip") <=> DerivedSkip(log[i].path)

\* C7: when compact() returns, nothing is left to handle and every partition
\* of the bucket (that a listing returns in one page) was handled,
\* every partition listing two eligible files or more that was not skipped
\* was merged, each merge without a failed write deleted its sources, and
\* the sources of each merge with a failed write are all in the bucket.
C7_FailureIsolation ==
    pc = "done" =>
        /\ account_level_prefixes = <<>> /\ results = <<>>
        /\ \A d \in {DirOf(k) : k \in Keys(store0)} :
              Cardinality(ObjectsIn(store0, path_prefix \o d)) <= PageSize =>
                  \E i \in 1..Len(log) : log[i].path = path_prefix \o d
        /\ \A i \in 1..Len(log) :
              log[i].kind # "skip" /\ log[i].eligible >= 2 => i \in Merges
        /\ \A i \in Merges :
              /\ log[i].returned
              /\ log[i].failed = 0 =>
                    /\ log[i].deleted
                    /\ SeqRange(log[i].file_list) \cap StorePaths = {}
              /\ log[i].failed > 0 =>
                    SeqRange(log[i].file_list) \subseteq StorePaths

C7_Witness ==
    /\ pc = "done"
    /\ \E i, j \in Merges :
          /\ i < j
          /\ log[i].failed > 0
          /\ SeqRange(log[i].file_list) \subseteq StorePaths
          /\ log[j].failed = 0
          /\ log[j].deleted
          /\ Len(log[j].file_list) >= 2
          /\ SeqRange(log[j].file_list) \cap StorePaths = {}

\* C8: a merge in which a chunk write failed has the outcome failure,
\* whatever its other writes did, and every file it wrote is in the bucket.
C8_NoRollback ==
    \A i \in Merges :
        log[i].failed > 0 =>
            /\ log[i].returned => ~log[i].success
            /\ pc = "merge" /\ i = Len(log) => ~success
            /\ SeqRange(log[i].outputs) \subseteq StorePaths

C8_Witness ==
    /\ pc = "done"
    /\ \E i \in Merges :
          /\ log[i].failed = 1
          /\ ~log[i].success
          /\ Len(log[i].outputs) = 2
          /\ SeqRange(log[i].outputs) \subseteq StorePaths
          /\ Len(read_parquet(store, log[i].file_list)) = 3
          /\ ObjectAt(store, log[i].outputs[1]).rows
                = read_parquet(store, log[i].file_list)[1]
          /\ ObjectAt(store, log[i].outputs[2]).rows
                = read_parquet(store, log[i].file_list)[3]

\* C9: a file of the target byte budget or more is never handed to a merge,
\* and the run neither deletes nor changes it, whether it was there when
\* the run started or the run wrote it.
C9_FullSizeLeftAlone ==
    /\ \A i \in Merges :
          /\ \A k \in 1..Len(log[i].sizes) : log[i].sizes[k] < FILE_SIZE_BYTES
          /\ ~log[i].returned =>
                \A f \in SeqRange(log[i].file_list) :
                    f \in StorePaths => ObjectAt(store, f).Size < FILE_SIZE_BYTES
          /\ \A k \in 1..Len(log[i].outputs) :
                log[i].output_sizes[k] >= FILE_SIZE_BYTES =>
                    /\ log[i].outputs[k] \in StorePaths
                    /\ ObjectAt(store, log[i].outputs[k]).Size = log[i].output_sizes[k]
    /\ \A o \in store0 :
          o.Size >= FILE_SIZE_BYTES =>
              \E n \in store : n.Key = o.Key /\ n.Size = o.Size /\ n.rows = o.rows

C9_Witness ==
    /\ pc = "done"
    /\ \E i \in Merges :
          /\ log[i].deleted
          /\ \E o \in ObjectsIn(store, log[i].path) :
                /\ o.Size = FILE_SIZE_BYTES
                /\ path_prefix \o o.Key \notin SeqRange(log[i].outputs)
                /\ Len(o.rows) = 1

-----------------------------------------------------------------------------
(* C10: determine_file_splits(). *)

\* the size of the candidate with that key
SizeOfKey(k) ==
    file_tuples[CHOOSE n \in 1..Len(file_tuples) : file_tuples[n][1] = k][2]

BatchSize(members) == SumSeq([n \in 1..Len(members) |-> SizeOfKey(members[n])])

\* C10: the sizes of the members of every batch the planner returns sum to
\* at most the target byte budget.
C10_BatchWithinBudget ==
    plan = "returned" =>
        \A b \in 1..Len(batches) : BatchSize(batches[b]) <= FILE_SIZE_BYTES

C10_Witness ==
    /\ plan = "returned"
    /\ \E n \in 1..Len(file_tuples) : file_tuples[n][2] > FILE_SIZE_BYTES
    /\ \E b \in 1..Len(batches) : BatchSize(batches[b]) = FILE_SIZE_BYTES
    /\ \E n \in 1..Len(split_dict) : Len(split_dict[n][2]) = 1

\* the keys that are members of some returned batch
Batched == UNION {SeqRange(batches[b]) : b \in 1..Len(batches)}

\* C11: every batch the planner returns has at least 2 members, and the
\* files of a bin that ends with fewer than 2 files are in no returned batch.
C11_BatchHasTwoMembers ==
    plan = "returned" =>
        /\ \A b \in 1..Len(batches) : Len(batches[b]) >= 2
        /\ \A n \in 1..Len(split_dict) :
              Len(split_dict[n][2]) < 2 => SeqRange(split_dict[n][2]) \cap Batched = {}

C11_Witness ==
    /\ plan = "returned"
    /\ \E b \in 1..Len(batches) : Len(batches[b]) >= 2
    /\ \E n \in 1..Len(split_dict) :
          /\ Len(split_dict[n][2]) = 1
          /\ file_tuples[CHOOSE m \in 1..Len(file_tuples) :
                             file_tuples[m][1] = split_dict[n][2][1]][2] <= FILE_SIZE_BYTES

-----------------------------------------------------------------------------
(* C12: the crawler. *)

\* the prefixes of a key that end with the delimiter
DirPrefixes(k) == {Take(k, i) : i \in {j \in 1..Len(k) : k[j] = "/"}}

\* the leaf prefixes of a bucket under data_prefix: data_prefix and the
\* prefixes below it that have no sub-prefix
Leaves(S) ==
    With({k \in Keys(S) : StartsWith(k, data_prefix)},
         LAMBDA keys :
             With({data_prefix}
                      \cup UNION {{q \in DirPrefixes(k) : StartsWith(q, data_prefix)} : k \in keys},
                  LAMBDA prefixes :
                      {q \in prefixes : \A k \in keys : StartsWith(k, q) => DirOf(k) = q}))

\* C12: when compact() returns, the partitions it obtained from the crawler
\* are the leaf prefixes under data_prefix, each one once, each with the
\* files that lie directly in it and are smaller than the target byte budget.
C12_CrawlerComplete ==
    pc = "done" =>
        /\ {log[i].path : i \in 1..Len(log)} = {path_prefix \o q : q \in Leaves(store0)}
        /\ \A i, j \in 1..Len(log) : log[i].path = log[j].path => i = j
        /\ \A i \in 1..Len(log) :
              log[i].eligible
                  = Cardinality({o \in ObjectsIn(store0, log[i].path) :
                                    o.Size < FILE_SIZE_BYTES})

-----------------------------------------------------------------------------
(* C13, C16, C17: filter_compacted(). *)

\* C13: filter_compacted gives the list it gave before when it is called
\* again on the same listing, and when it is called on the files it retained.
C13_FilterIdempotent ==
    /\ pc \in {"filtered", "refiltered"} =>
          file_list = filter_compacted(determine_base_file_name(path),
                                       Head(results).file_tuples)
    /\ pc = "refiltered" => dfs = file_list

C13_Witness ==
    /\ pc = "refiltered"
    /\ Len(log[1]) >= 2
    /\ Len(file_list) >= 2
    /\ Len(file_list) < Len(Head(results).file_tuples)
    /\ dfs = file_list

\* the output naming convention: <s3_path><base>_<suffix>.parquet, the
\* suffix being UuidHexLen hexadecimal digits, or decimal digits
IsOutputName(s3_path, base, file) ==
    With(s3_path \o base \o <<"_">>,
         LAMBDA stem :
             With(Len(file) - Len(Str_parquet) - 1,
                  LAMBDA last :
                      /\ StartsWith(file, stem)
                      /\ last >= Len(stem) + 1
                      /\ OccursAt(file, last + 1, <<".">> \o Str_parquet)
                      /\ \/ /\ last - Len(stem) = UuidHexLen
                            /\ \A k \in (Len(stem) + 1)..last : file[k] \in HexDigits
                         \/ \A k \in (Len(stem) + 1)..last : file[k] \in Digits))

\* C16: filter_compacted retains every file that is not named by the output
\* naming convention, and of the files that are it retains one, which has
\* the greatest last_modified among them.
C16_RetainsNewestCompacted ==
    pc \in {"filtered", "refiltered"} =>
        LET base == determine_base_file_name(path)
            listed == SeqRange(Head(results).file_tuples)
            outputs == {t \in listed : IsOutputName(path, base, t[1])}
        IN  /\ \A t \in listed \ outputs : t[1] \in SeqRange(file_list)
            /\ outputs # {} =>
                  \E t \in outputs :
                      /\ \A u \in outputs : u[3] <= t[3]
                      /\ \A u \in outputs : u[1] \in SeqRange(file_list) <=> u = t

\* C17: every file named as merge_files_in_dataframe names its outputs for
\* the partition is taken for compacted by filter_compacted.
C17_OutputNameIsCompacted ==
    pc \in {"filtered", "refiltered"} =>
        LET base == determine_base_file_name(path)
        IN  \A i \in 1..Len(Head(results).file_tuples) :
                (\E n \in 1..Len(HexDigitSeq) :
                     Head(results).file_tuples[i][1] = OutputPath(path, base, n))
                    => Head(results).file_tuples[i][1] \in SeqRange(log[1])

-----------------------------------------------------------------------------
(* C14, C15: determine_file_splits() against first fit. *)

\* C14: no file key is in two of the batches the planner returns.
C14_BatchesDisjoint ==
    plan = "returned" =>
        \A a, b \in 1..Len(batches) :
            a # b => SeqRange(batches[a]) \cap SeqRange(batches[b]) = {}

\* first fit: the bins, each <<members, total>>, after the file is put
\* into the first bin that has room for it, or into a new last bin
FirstFitPut(bins, file_key, file_size) ==
    IF \E i \in 1..Len(bins) : bins[i][2] + file_size <= FILE_SIZE_BYTES
    THEN With(Min({i \in 1..Len(bins) : bins[i][2] + file_size <= FILE_SIZE_BYTES}),
              LAMBDA first :
                  [i \in 1..Len(bins) |->
                      IF i = first
                      THEN <<Append(bins[i][1], file_key), bins[i][2] + file_size>>
                      ELSE bins[i]])
    ELSE Append(bins, <<<<file_key>>, file_size>>)

RECURSIVE FirstFitBins(_, _)
FirstFitBins(bins, tuples) ==
    IF tuples = <<>> THEN bins
    ELSE FirstFitBins(FirstFitPut(bins, Head(tuples)[1], Head(tuples)[2]), Tail(tuples))

\* the batches of first fit: it starts with one empty bin, and the bins
\* that end with fewer than 2 files are dropped
FirstFit(tuples) ==
    With(FirstFitBins(<<<<<<>>, 0>>>>, tuples),
         LAMBDA bins :
             With(SelectSeq(bins, LAMBDA bin : Len(bin[1]) >= 2),
                  LAMBDA kept : [i \in 1..Len(kept) |-> kept[i][1]]))

\* C15: the planner returns the batches of first fit in input order.
C15_GreedyFirstFit ==
    plan = "returned" => batches = FirstFit(file_tuples)

-----------------------------------------------------------------------------
(* C18..C20: compact(), partitions left alone and the rows of the bucket. *)

\* the files of a partition that convert_results would list as eligible
Eligible(S, p) == {o \in ObjectsIn(S, p) : o.Size < FILE_SIZE_BYTES}

\* the partition had at most one eligible file when the run started, and
\* the run does not skip it
NoOp(p) == ~should_skip_compacting(p) /\ Cardinality(Eligible(store0, p)) <= 1

\* C18: in a partition that is not skipped and holds at most one eligible
\* file, the run reads, writes and deletes nothing: the partition holds the
\* files it held when the run started, no merge is started for it, and the
\* run goes on: when it returns without a transport failure, both its
\* loops have come to their end.
C18_NoOpPartitions ==
    /\ \A d \in {DirOf(k) : k \in Keys(store) \cup Keys(store0)} :
          NoOp(path_prefix \o d) =>
              /\ Files(ObjectsIn(store, path_prefix \o d))
                    = Files(ObjectsIn(store0, path_prefix \o d))
              /\ pc = "merge" => path # path_prefix \o d
    /\ \A i \in 1..Len(log) :
          NoOp(log[i].path) =>
              /\ log[i].kind = "none"
              /\ log[i].file_list = <<>>
              /\ log[i].outputs = <<>>
              /\ ~log[i].deleted
              /\ log[i].failed = 0
    /\ pc = "done" => account_level_prefixes = <<>> /\ results = <<>>

C18_Witness ==
    /\ pc = "done"
    /\ \E i, j \in 1..Len(log) :
          /\ i < j
          /\ NoOp(log[i].path)
          /\ log[i].kind = "none"
          /\ log[i].eligible = 1
          /\ Cardinality(ObjectsIn(store, log[i].path)) = 2
          /\ Files(ObjectsIn(store, log[i].path)) = Files(ObjectsIn(store0, log[i].path))

\* the rows held by the files of a bucket
RowsOf(S) == UNION {SeqRange(o.rows) : o \in S}

\* C19: no step of any run, failing or aborted or not, takes a row out of
\* the bucket: every row that some file holds before the step is held by
\* some file after it, and so every row of the first bucket is in every
\* bucket after it.
C19_NoRowLost ==
    [][RowsOf(store) \subseteq RowsOf(store')]_vars

\* a second run has ended; its merge deleted its sources, after a first
\* run had left the files of a failed merge, and the rows the run started
\* with are all there
C19_Witness ==
    /\ pc = "done"
    /\ faults > 0
    /\ \E i \in Merges :
          /\ log[i].deleted
          /\ \E f \in SeqRange(log[i].file_list) :
                \E n \in 1..Len(HexDigitSeq) :
                    f = OutputPath(log[i].path, determine_base_file_name(log[i].path), n)
    /\ Keys(store0) \cap Keys(store) = {}
    /\ RowsOf(store0) = RowsOf(store)

\* every row of the bucket is in exactly one file, once
EachRowOnce(S) ==
    \A row \in RowsOf(S) :
        \E o \in S :
            /\ \A u \in S : row \in SeqRange(u.rows) => u = o
            /\ Cardinality({n \in 1..Len(o.rows) : o.rows[n] = row}) = 1

\* the run has returned and none of its writes failed
RunSucceeded == pc = "done" /\ \A i \in 1..Len(log) : log[i].failed = 0

\* C20: when a run that started with every row in exactly one file has
\* returned with no failed write and no transport failure, every row is
\* still in exactly one file, the rows are those the run started with,
\* and the files gone from the bucket are exactly the sources its merges
\* read.
C20_NoRowDuplicated ==
    RunSucceeded /\ EachRowOnce(store0) =>
        /\ EachRowOnce(store)
        /\ RowsOf(store) = RowsOf(store0)
        /\ {path_prefix \o k : k \in Keys(store0) \ Keys(store)}
              = UNION {SeqRange(log[i].file_list) : i \in Merges}

C20_Witness ==
    /\ RunSucceeded
    /\ EachRowOnce(store0)
    /\ EachRowOnce(store)
    /\ \E i \in Merges :
          /\ Len(log[i].file_list) >= 3
          /\ Len(log[i].outputs) >= 2
          /\ SeqRange(log[i].file_list) \cap StorePaths = {}
          /\ SeqRange(log[i].outputs) \subseteq StorePaths

====
